---------------------------- MODULE Spec2Model ----------------------------
(***************************************************************************)
(* Model of the Jetson pinmux tools:                                       *)
(*   - Pinmux_dtsi_delta.py : delta of the changed pin blocks of the       *)
(*     common { ... } section between a BEFORE and an AFTER document;      *)
(*   - gen_pinmux_dt_from_xlsx.py : config-bit encoding of a table row,    *)
(*     decoding of a config word, classification of the rows and           *)
(*     rendering of the DTSI document.                                     *)
(* Texts are TLA+ strings; a character is a string of length one.          *)
(***************************************************************************)
EXTENDS Integers, Sequences, FiniteSets, TLC

VARIABLES
    before_text,    \* delta: text of the BEFORE file
    after_text,     \* delta: text of the AFTER file
    before_blocks,  \* delta: build_delta_common's before_blocks
    after_blocks,   \* delta: build_delta_common's after_blocks
    changed_pins,   \* delta: build_delta_common's changed_pins
    delta_common,   \* delta: the text build_delta_common returns
    sheet,          \* generator: the data rows of the sheet, in table order
    used_rows,      \* generator: main's used_rows
    unused_rows,    \* generator: main's unused_rows
    mpio_name,      \* generator: main's arrays, without their unused index 0
    sfio_name,
    mpio_cfg,
    pin_num,
    signal_name,
    max_sfio_index, \* generator: the counts handed to print_pinmux_dt
    max_unused_index,
    dt_lines,       \* generator: print_pinmux_dt's list lines
    out_text,       \* what main wrote to the output file
    printed,        \* what main printed
    pc              \* position of the running program

\* the state of the delta tool
dvars == <<before_text, after_text, before_blocks, after_blocks, changed_pins,
           delta_common>>

\* the state of the generator
gvars == <<sheet, used_rows, unused_rows, mpio_name, sfio_name, mpio_cfg,
           pin_num, signal_name, max_sfio_index, max_unused_index, dt_lines>>

vars == <<dvars, gvars, out_text, printed, pc>>

-----------------------------------------------------------------------------
(* Strings *)

Ch(s, i) == SubSeq(s, i, i)

\* str[i:] with a 1-based first index
From(s, i) == SubSeq(s, i, Len(s))

\* the characters of [A-Za-z0-9_], in code point order
WordOrder == "0123456789ABCDEFGHIJKLMNOPQRSTUVWXYZ_abcdefghijklmnopqrstuvwxyz"

WordChars == {Ch(WordOrder, k) : k \in 1..Len(WordOrder)}

IsWordChar(c) == c \in WordChars

\* the rank of each word character in code point order
OrdOf == [c \in WordChars |-> CHOOSE k \in 1..Len(WordOrder) : Ch(WordOrder, k) = c]

Ord(c) == OrdOf[c]

\* \s of the re module, on the characters the texts are made of
IsSpace(c) == c \in {" ", "\t", "\n"}

\* index of the first character after leading white space from i on
RECURSIVE SkipSpace(_, _)
SkipSpace(s, i) ==
    IF i <= Len(s) /\ IsSpace(Ch(s, i)) THEN SkipSpace(s, i + 1) ELSE i

\* index of the last character before trailing white space up to i
RECURSIVE SkipSpaceBack(_, _)
SkipSpaceBack(s, i) ==
    IF i >= 1 /\ IsSpace(Ch(s, i)) THEN SkipSpaceBack(s, i - 1) ELSE i

LStrip(s) == From(s, SkipSpace(s, 1))

RStrip(s) == SubSeq(s, 1, SkipSpaceBack(s, Len(s)))

Strip(s) == LStrip(RStrip(s))

\* str.find(c, i) for a one-character c, 1-based; 0 when absent
FirstOf(at) == IF at = {} THEN 0 ELSE CHOOSE k \in at : \A j \in at : k <= j

Find(s, c, i) == FirstOf({k \in i..Len(s) : Ch(s, k) = c})

\* 1-based index of the first occurrence of sub in text, 0 when absent
IndexOf(text, sub) ==
    FirstOf({k \in 1..(Len(text) - Len(sub) + 1) :
                 SubSeq(text, k, k + Len(sub) - 1) = sub})

\* str.count(c) for a one-character c
Count(s, c) == Cardinality({k \in 1..Len(s) : Ch(s, k) = c})

\* sep.join(lines)
RECURSIVE Join(_, _)
Join(sep, lines) ==
    IF Len(lines) = 0 THEN ""
    ELSE IF Len(lines) = 1 THEN lines[1]
    ELSE lines[1] \o sep \o Join(sep, Tail(lines))

\* str.splitlines(): no empty last line after a final line break
RECURSIVE SplitLines(_)
\* the lines of s, whose first line break is at k (0: none)
SplitAt(s, k) ==
    IF k = 0 THEN <<s>>
    ELSE <<SubSeq(s, 1, k - 1)>> \o SplitLines(From(s, k + 1))

SplitLines(s) == IF Len(s) = 0 THEN <<>> ELSE SplitAt(s, Find(s, "\n", 1))

\* a < b for Python strings of word characters (lexicographic by code point)
RECURSIVE StrLess(_, _)
StrLess(a, b) ==
    IF Len(b) = 0 THEN FALSE
    ELSE IF Len(a) = 0 THEN TRUE
    ELSE IF Ch(a, 1) = Ch(b, 1) THEN StrLess(From(a, 2), From(b, 2))
    ELSE Ord(Ch(a, 1)) < Ord(Ch(b, 1))

\* sorted(S) for a set of strings
RECURSIVE Sorted(_)
\* m first, then the others sorted
SortedFrom(m, S) == <<m>> \o Sorted(S \ {m})

Sorted(S) ==
    IF S = {} THEN <<>>
    ELSE SortedFrom(CHOOSE x \in S : \A y \in S \ {x} : StrLess(x, y), S)

-----------------------------------------------------------------------------
(* Pinmux_dtsi_delta.py: extract_common_section *)

\* r'\bcommon\s*\{' matched at i: the index of its "{", or 0
BraceAt(text, j) == IF j <= Len(text) /\ Ch(text, j) = "{" THEN j ELSE 0

CommonMatchAt(text, i) ==
    IF /\ i + 5 <= Len(text)
       /\ SubSeq(text, i, i + 5) = "common"
       /\ (i = 1 \/ ~IsWordChar(Ch(text, i - 1)))
    THEN BraceAt(text, SkipSpace(text, i + 6))
    ELSE 0

\* re.search(r'\bcommon\s*\{', text): the index of the "{" of the leftmost
\* match, or 0
CommonSearch(text) ==
    FirstOf({CommonMatchAt(text, i) : i \in 1..Len(text)} \ {0})

\* the loop over text[start_brace:], from index i on with the depth so far:
\* the index where depth returns to 0, or 0. Characters other than braces
\* leave depth alone, so the loop is followed from brace to brace.
RECURSIVE ScanClose(_, _, _)
\* the loop at the next "{" (open) and the next "}" (close), 0 for none
ScanBrace(text, depth, open, close) ==
    IF open # 0 /\ (close = 0 \/ open < close)
    THEN ScanClose(text, open + 1, depth + 1)
    ELSE IF close = 0 THEN 0
    ELSE IF depth - 1 = 0 THEN close
    ELSE ScanClose(text, close + 1, depth - 1)

ScanClose(text, i, depth) ==
    ScanBrace(text, depth, Find(text, "{", i), Find(text, "}", i))

\* text[start_inner:end_inner], or "" when there is no end or nothing inside
CommonInner(text, start_inner, end_inner) ==
    IF end_inner = 0 \/ end_inner <= start_inner THEN ""
    ELSE SubSeq(text, start_inner, end_inner - 1)

\* the part of extract_common_section after start_brace is found
CommonFrom(text, start_brace) ==
    IF start_brace = 0 THEN ""
    ELSE CommonInner(text, start_brace + 1, ScanClose(text, start_brace, 0))

\* the part of extract_common_section after the search: m is the index of
\* the last character matched (m.end() - 1), 0 for no match
CommonMatched(text, m) ==
    IF m = 0 THEN "" ELSE CommonFrom(text, Find(text, "{", m))

extract_common_section(text) == CommonMatched(text, CommonSearch(text))

-----------------------------------------------------------------------------
(* Pinmux_dtsi_delta.py: parse_pin_blocks_with_comments *)

\* comment_re = r'^\s*/\*.*\*/\s*$' matches the line
\* s, a line without the white space around it, is /* ... */
IsComment(s) ==
    /\ Len(s) >= 4
    /\ SubSeq(s, 1, 2) = "/*"
    /\ SubSeq(s, Len(s) - 1, Len(s)) = "*/"

comment_re(line) == IsComment(Strip(line))

\* the length of the longest prefix of s made of word characters
RECURSIVE WordLenFrom(_, _)
WordLenFrom(s, i) ==
    IF i <= Len(s) /\ IsWordChar(Ch(s, i)) THEN 1 + WordLenFrom(s, i + 1) ELSE 0

WordLen(s) == WordLenFrom(s, 1)

\* pin_re = r'^\s*([A-Za-z0-9_]+)\s*\{' matches the line
\* s starts with n > 0 word characters, then white space, then "{"
PinMatch(s, n) == n > 0 /\ BraceAt(s, SkipSpace(s, n + 1)) # 0

\* the word at the start of s
FirstWord(s) == SubSeq(s, 1, WordLen(s))

pin_re(line) == PinMatch(LStrip(line), WordLen(LStrip(line)))

\* m.group(1) of a line pin_re matches
pin_name(line) == FirstWord(LStrip(line))

\* the brace balancing loop: the line index where depth returns to 0, from
\* line j on with the depth so far; 0 for an unterminated block
RECURSIVE block_end(_, _, _)
\* the step of the loop once line j is counted in depth
block_end_at(lines, j, depth) ==
    IF depth = 0 THEN j ELSE block_end(lines, j + 1, depth)

block_end(lines, j, depth) ==
    IF j > Len(lines) THEN 0
    ELSE block_end_at(lines, j,
                      depth + Count(lines[j], "{") - Count(lines[j], "}"))

\* norm_lines that forgets l.strip(): comment lines dropped, the others kept
\* as they are
RECURSIVE norm_lines_unstripped(_)
norm_lines_unstripped(block_lines) ==
    IF Len(block_lines) = 0 THEN <<>>
    ELSE IF comment_re(Head(block_lines))
         THEN norm_lines_unstripped(Tail(block_lines))
    ELSE <<Head(block_lines)>> \o norm_lines_unstripped(Tail(block_lines))

\* the lines of a block without the comment lines, each stripped
RECURSIVE norm_lines(_)
norm_lines(block_lines) ==
    IF Len(block_lines) = 0 THEN <<>>
    ELSE IF comment_re(Head(block_lines)) THEN norm_lines(Tail(block_lines))
    ELSE <<Strip(Head(block_lines))>> \o norm_lines(Tail(block_lines))

\* norm_text of a block
norm_text(block_lines) == Join(" ", norm_lines(block_lines))

\* blocks[pin] = (block_text, norm_text)
put_block(blocks, pin, block_lines) ==
    (pin :> [text |-> Join("\n", block_lines), norm |-> norm_text(block_lines)])
        @@ blocks

\* the while loop over the lines: i is the current line, pending the index
\* of the last comment line seen since the last block (0 for None)
RECURSIVE parse_loop(_, _, _, _)
\* the loop at a pin's opening line i, with the block's first and last line
\* (end_idx 0: unterminated, stop parsing)
parse_block(lines, i, start_idx, end_idx, blocks) ==
    IF end_idx = 0 THEN blocks
    ELSE parse_loop(lines, end_idx + 1, 0,
                    put_block(blocks, pin_name(lines[i]),
                              SubSeq(lines, start_idx, end_idx)))

parse_loop(lines, i, pending, blocks) ==
    IF i > Len(lines) THEN blocks
    ELSE IF comment_re(lines[i]) THEN parse_loop(lines, i + 1, i, blocks)
    ELSE IF ~pin_re(lines[i]) THEN parse_loop(lines, i + 1, pending, blocks)
    ELSE parse_block(lines, i, IF pending # 0 THEN pending ELSE i,
                     block_end(lines, i, 0), blocks)

\* the empty dict
NoBlocks == [p \in {} |-> [text |-> "", norm |-> ""]]

parse_pin_blocks_with_comments(common_body) ==
    IF common_body = "" THEN NoBlocks
    ELSE parse_loop(SplitLines(common_body), 1, 0, NoBlocks)

-----------------------------------------------------------------------------
(* Pinmux_dtsi_delta.py: build_delta_common *)

\* pin_changed comparing the raw block texts, a[0] != b[0]
pin_changed_raw(b_blocks, a_blocks, pin) ==
    IF pin \notin DOMAIN a_blocks THEN FALSE
    ELSE IF pin \notin DOMAIN b_blocks THEN TRUE
    ELSE a_blocks[pin].text # b_blocks[pin].text

\* pin_changed with one index slipped, a[0] != b[1]
pin_changed_mixed(b_blocks, a_blocks, pin) ==
    IF pin \notin DOMAIN a_blocks THEN FALSE
    ELSE IF pin \notin DOMAIN b_blocks THEN TRUE
    ELSE a_blocks[pin].text # b_blocks[pin].norm

\* whether the loop body appends pin to changed_pins
pin_changed(b_blocks, a_blocks, pin) ==
    IF pin \notin DOMAIN a_blocks THEN FALSE
    ELSE IF pin \notin DOMAIN b_blocks THEN TRUE
    ELSE a_blocks[pin].norm # b_blocks[pin].norm

\* the loop over all_pins, from position k on
RECURSIVE changed_from(_, _, _, _)
changed_from(b_blocks, a_blocks, all_pins, k) ==
    IF k > Len(all_pins) THEN <<>>
    ELSE (IF pin_changed(b_blocks, a_blocks, all_pins[k])
          THEN <<all_pins[k]>> ELSE <<>>)
         \o changed_from(b_blocks, a_blocks, all_pins, k + 1)

RECURSIVE Reverse(_)
Reverse(q) == IF Len(q) = 0 THEN <<>> ELSE Reverse(Tail(q)) \o <<Head(q)>>

\* all_pins sorted the other way round, sorted(..., reverse=True)
all_pins_reversed(b_blocks, a_blocks) ==
    Reverse(Sorted(DOMAIN b_blocks \cup DOMAIN a_blocks))

\* all_pins = sorted(set(before_blocks.keys()) | set(after_blocks.keys()))
all_pins(b_blocks, a_blocks) == Sorted(DOMAIN b_blocks \cup DOMAIN a_blocks)

compute_changed_pins(b_blocks, a_blocks) ==
    changed_from(b_blocks, a_blocks, all_pins(b_blocks, a_blocks), 1)

T2 == "\t\t"
T3 == "\t\t\t"

\* the lines appended for the changed pins, from position k on
RECURSIVE delta_block_lines(_, _, _)
delta_block_lines(a_blocks, changed, k) ==
    IF k > Len(changed) THEN <<>>
    ELSE (IF k > 1 THEN <<"">> ELSE <<>>)
         \o <<RStrip(a_blocks[changed[k]].text)>>
         \o delta_block_lines(a_blocks, changed, k + 1)

\* the text returned for the changed pins
render_delta(a_blocks, changed) ==
    IF Len(changed) = 0 THEN ""
    ELSE Join("\n",
              <<T2 \o "/* Auto-generated: delta of changed pins only */",
                T2 \o "common {",
                T3 \o "/* Only pins that changed vs. BEFORE */">>
              \o delta_block_lines(a_blocks, changed, 1)
              \o <<T2 \o "};", "">>)

-----------------------------------------------------------------------------
(* Input documents of the delta tool *)

\* pieces of a common section: whole pin blocks and single lines
BodyChunks ==
    { "/* Pin 1 */",
      "",
      "P9 {\np;\n};",
      "\tP9 {\n\t\tp;\n\t};",
      "P9 {\nq;\n};",
      "P9 {p;};",
      "P10 {\np;\n};" }

\* at most this many pieces in a common section
MaxChunks == 2

RECURSIVE ChunkSeqs(_)
ChunkSeqs(n) ==
    IF n = 0 THEN {<<>>}
    ELSE ChunkSeqs(n - 1) \cup
         {Append(s, c) : s \in {t \in ChunkSeqs(n - 1) : Len(t) = n - 1},
                         c \in BodyChunks}

\* a document with this common section, laid out as print_pinmux_dt does:
\* the section's own comment line first
Document(chunks) ==
    "common {\n/* SFIO */\n" \o Join("\n", chunks) \o "\n};\n"

\* a block whose brace depth never returns to zero: the inner "{" is not
\* closed
UnterminatedBlock == "P10 {\np {;\n};"

\* a document whose common section holds a well-formed block P9 and then
\* the unterminated block, alone and inside an enclosing node
Unterminated == Document(<<"P9 {\np;\n};", UnterminatedBlock>>)
UnterminatedWrapped == "pinmux {\n" \o Unterminated \o "};\n"

\* documents whose common section is missing, never closed, or holds an
\* unterminated block
Malformed ==
    { "", "common {\nP9 {\np;\n};\n", Unterminated, UnterminatedWrapped }

Texts == {Document(cs) : cs \in ChunkSeqs(MaxChunks)} \cup Malformed

\* parse_pin_blocks_with_comments(extract_common_section(text)) of every
\* input document, kept as a table
BlocksOf ==
    [t \in Texts |->
        parse_pin_blocks_with_comments(extract_common_section(t))] @@ <<>>


-----------------------------------------------------------------------------
(* Pinmux_dtsi_delta.py: main *)

\* the generator's state while the delta tool runs
GeneratorIdle ==
    /\ sheet = <<>>
    /\ used_rows = <<>>
    /\ unused_rows = <<>>
    /\ mpio_name = <<>>
    /\ sfio_name = <<>>
    /\ mpio_cfg = <<>>
    /\ pin_num = <<>>
    /\ signal_name = <<>>
    /\ max_sfio_index = 0
    /\ max_unused_index = 0
    /\ dt_lines = <<>>

InitDelta ==
    /\ before_text \in Texts
    /\ after_text \in Texts
    /\ before_blocks = NoBlocks
    /\ after_blocks = NoBlocks
    /\ changed_pins = <<>>
    /\ delta_common = ""
    /\ GeneratorIdle
    /\ out_text = ""
    /\ printed = ""
    /\ pc = "start"

\* delta_common = build_delta_common(before_text, after_text)
build_delta_common ==
    /\ pc = "start"
    /\ before_blocks' = BlocksOf[before_text]
    /\ after_blocks' = BlocksOf[after_text]
    /\ changed_pins' = compute_changed_pins(before_blocks', after_blocks')
    /\ delta_common' = render_delta(after_blocks', changed_pins')
    /\ pc' = "built"
    /\ UNCHANGED <<before_text, after_text, gvars, out_text, printed>>

\* the message main prints for a delta text
delta_message(delta) ==
    IF Strip(delta) # "" THEN "Wrote" ELSE "No pinmux differences detected"

\* out_path.write_text(delta_common) and the message printed
write_delta ==
    /\ pc = "built"
    /\ out_text' = delta_common
    /\ printed' = delta_message(delta_common)
    /\ pc' = "done"
    /\ UNCHANGED <<dvars, gvars>>

NextDelta == build_delta_common \/ write_delta

SpecDelta == InitDelta /\ [][NextDelta]_vars

-----------------------------------------------------------------------------
(* Observations of the delta tool's texts, used by the properties below *)

\* the range of a sequence
Range(q) == {q[k] : k \in DOMAIN q}

\* every pin name of the input documents
AllPins == UNION {DOMAIN BlocksOf[t] : t \in Texts}

\* where the delta text opens pin's block, 0 when it has no such block
DeltaBlockAt(pin) == IndexOf(delta_common, pin \o " {")

\* the pins whose block the delta text holds
DeltaPins == {p \in AllPins : DeltaBlockAt(p) # 0}

\* every raw block text of the input documents
AllBlockTexts ==
    UNION {{BlocksOf[t][p].text : p \in DOMAIN BlocksOf[t]} : t \in Texts}

\* s without its white space characters
RECURSIVE NoSpace(_)
NoSpace(s) ==
    IF Len(s) = 0 THEN ""
    ELSE (IF IsSpace(Ch(s, 1)) THEN "" ELSE Ch(s, 1)) \o NoSpace(From(s, 2))

\* the lines of s, each without the white space around it
RECURSIVE StrippedLines(_)
StrippedLines(lines) ==
    IF Len(lines) = 0 THEN <<>>
    ELSE <<Strip(Head(lines))>> \o StrippedLines(Tail(lines))

\* the lines from the first line pin_re matches on: the block proper, from
\* its opener to its closing line
RECURSIVE FromOpener(_)
FromOpener(lines) ==
    IF Len(lines) = 0 \/ pin_re(Head(lines)) THEN lines
    ELSE FromOpener(Tail(lines))

\* the three views of every raw block text, kept as tables
NoSpaceOf == [x \in AllBlockTexts |-> NoSpace(x)] @@ <<>>
StrippedLinesOf == [x \in AllBlockTexts |-> StrippedLines(SplitLines(x))] @@ <<>>
FieldBodyOf == [x \in AllBlockTexts |-> FromOpener(SplitLines(x))] @@ <<>>

\* the pins with a block on both sides
CommonPins == DOMAIN before_blocks \cap DOMAIN after_blocks

-----------------------------------------------------------------------------
(* Properties of build_delta_common *)

\* the pins of AFTER that are new or whose normalized text differs
ExpectedChanged ==
    {p \in DOMAIN BlocksOf[after_text] :
        \/ p \notin DOMAIN BlocksOf[before_text]
        \/ BlocksOf[after_text][p].norm # BlocksOf[before_text][p].norm}

\* C1: the pin blocks of the delta are exactly the pins parsed from the
\* common section of AFTER that are absent from BEFORE's or whose normalized
\* text differs; a pin only in BEFORE and a pin with equal normalized text
\* are not in it.
C1_DeltaIsExactlyTheChangedPins ==
    pc = "built" =>
        /\ Range(changed_pins) = ExpectedChanged
        /\ DeltaPins = ExpectedChanged
        /\ (delta_common = "") = (ExpectedChanged = {})

\* C1 happens: a pin of both sides changed and in the delta, another only in
\* BEFORE
C1_Witness ==
    /\ pc = "built"
    /\ \E p \in CommonPins : p \in DeltaPins
    /\ \E p \in DOMAIN before_blocks : p \notin DOMAIN after_blocks

\* C2: a document diffed against itself gives the empty delta.
C2_SelfDiffIsEmpty ==
    (pc = "built" /\ before_text = after_text) =>
        (changed_pins = <<>> /\ delta_common = "")

\* C2 happens: a document with pin blocks was diffed against itself
C2_Witness ==
    /\ pc = "built"
    /\ before_text = after_text
    /\ Cardinality(DOMAIN after_blocks) >= 2

\* C3: the changed pins are in strictly increasing lexicographic order of
\* their identifier, in the list and in the delta text, whatever the order of
\* the blocks in the inputs.
C3_ChangedPinsInLexOrder ==
    pc = "built" =>
        /\ \A i, j \in DOMAIN changed_pins :
               i < j => StrLess(changed_pins[i], changed_pins[j])
        /\ \A i \in 1..(Len(changed_pins) - 1) :
               /\ DeltaBlockAt(changed_pins[i]) # 0
               /\ DeltaBlockAt(changed_pins[i])
                      < DeltaBlockAt(changed_pins[i + 1])

\* C3 happens: two changed pins whose blocks stand in AFTER in the other order
C3_Witness ==
    /\ pc = "built"
    /\ Len(changed_pins) = 2
    /\ IndexOf(after_text, changed_pins[2] \o " {")
           < IndexOf(after_text, changed_pins[1] \o " {")

\* C4: a pin whose block proper (opener to closing line) is the same on both
\* sides, the sides differing at most in the comment line before it, is
\* left out of the delta.
C4_CommentIndependence ==
    pc = "built" =>
        \A p \in CommonPins :
            FieldBodyOf[before_blocks[p].text] = FieldBodyOf[after_blocks[p].text]
                => p \notin Range(changed_pins)

CFG_RCV_SEL == 1
CFG_LOCK == 2
CFG_OD == 4
CFG_E_INPUT == 8
CFG_TRISTATE == 16
CFG_PULL_DOWN == 32
CFG_PULL_UP == 64
CFG_DDC == 256
CFG_HAS_EQOS == 2048
CFG_EQOS == 4096
CFG_DRV_1X == 512
CFG_DEF_1X == 1024

ERR_PULL == -1
ERR_LPDR == -1

TAB == "\t"
DOUBLE_TAB == TAB \o TAB
TRIPLE_TAB == DOUBLE_TAB \o TAB
QUAD_TAB == TRIPLE_TAB \o TAB

\* a & b on non-negative integers
RECURSIVE BitAnd(_, _)
BitAnd(a, b) ==
    IF a = 0 \/ b = 0 THEN 0
    ELSE (a % 2) * (b % 2) + 2 * BitAnd(a \div 2, b \div 2)

\* a | b on non-negative integers
RECURSIVE BitOr(_, _)
BitOr(a, b) ==
    IF a = 0 THEN b
    ELSE IF b = 0 THEN a
    ELSE (IF a % 2 = 1 \/ b % 2 = 1 THEN 1 ELSE 0)
         + 2 * BitOr(a \div 2, b \div 2)

\* get_pull without the range test: the ambiguous value is passed on
pull_checker_unchecked(checker) == checker

\* the checker of get_pull after the range test
pull_checker(checker) == IF checker > 2 THEN ERR_PULL ELSE checker

pull_name(checker) ==
    IF checker = 0 THEN "TEGRA_PIN_PULL_NONE"
    ELSE IF checker = 1 THEN "TEGRA_PIN_PULL_DOWN"
    ELSE IF checker = 2 THEN "TEGRA_PIN_PULL_UP"
    ELSE ToString(checker)

get_pull(config_bits) ==
    pull_name(pull_checker(
        (BitAnd(config_bits, BitOr(CFG_PULL_UP, CFG_PULL_DOWN))
            \div CFG_PULL_DOWN) % 4))

\* the body shared by the one-bit decoders
enable_if(checker) ==
    IF checker # 0 THEN "TEGRA_PIN_ENABLE" ELSE "TEGRA_PIN_DISABLE"

get_tristate(config_bits) ==
    enable_if((BitAnd(config_bits, CFG_TRISTATE) \div CFG_TRISTATE) % 2)

get_einput(config_bits) ==
    enable_if((BitAnd(config_bits, CFG_E_INPUT) \div CFG_E_INPUT) % 2)

\* the range test of get_pull applied to the drive field
lpdr_checker_as_pull(checker) == IF checker > 2 THEN ERR_LPDR ELSE checker

lpdr_checker(checker) == IF checker > 3 THEN ERR_LPDR ELSE checker

lpdr_name(checker) ==
    IF checker = 0 THEN "TEGRA_PIN_1X_DRIVER"
    ELSE IF checker = 1 THEN "TEGRA_PIN_2X_DRIVER"
    ELSE IF checker = 2 THEN "TEGRA_PIN_DEFAULT_DRIVE_1X"
    ELSE IF checker = 3 THEN "TEGRA_PIN_DEFAULT_DRIVE_2X"
    ELSE "TEGRA_PIN_COMP"

get_lpdr(config_bits) ==
    lpdr_name(lpdr_checker(
        (BitAnd(config_bits, BitOr(CFG_DRV_1X, CFG_DEF_1X))
            \div CFG_DRV_1X) % 4))

get_lock(config_bits) ==
    enable_if((BitAnd(config_bits, CFG_LOCK) \div CFG_LOCK) % 2)

get_od(config_bits) ==
    enable_if((BitAnd(config_bits, CFG_OD) \div CFG_OD) % 2)

get_ddc(config_bits) == (BitAnd(config_bits, CFG_DDC) \div CFG_DDC) % 2

get_rcvsel(config_bits) ==
    enable_if((BitAnd(config_bits, CFG_RCV_SEL) \div CFG_RCV_SEL) % 2)

get_has_eqos(config_bits) ==
    (BitAnd(config_bits, CFG_HAS_EQOS) \div CFG_HAS_EQOS) % 2

get_eqos(config_bits) ==
    enable_if((BitAnd(config_bits, CFG_EQOS) \div CFG_EQOS) % 2)

(***************************************************************************)
(* gen_pinmux_dt_from_xlsx.py: print_pinmux_dt                             *)
(***************************************************************************)

\* comment_parts of one pin
comment_parts(pnum, sig) ==
    (IF pnum # "" THEN <<pnum>> ELSE <<>>)
        \o (IF sig # "" THEN <<sig>> ELSE <<>>)

comment_of(parts) ==
    IF parts # <<>>
    THEN <<TRIPLE_TAB \o "/* Pin " \o Join(" - ", parts) \o " */">>
    ELSE <<>>

comment_lines(pnum, sig) == comment_of(comment_parts(pnum, sig))

property_line(name, value) ==
    QUAD_TAB \o "nvidia," \o name \o " = <" \o value \o ">;"

\* the optional property lines of one pin, all of them emitted always
optional_lines_unconditional(c) ==
    <<property_line("lock", get_lock(c)),
      property_line("open-drain", get_od(c)),
      property_line("e-io-od", get_rcvsel(c)),
      property_line("e-lpbk", get_eqos(c))>>

\* the optional property lines of one pin
optional_lines(c) ==
    (IF get_lock(c) = "TEGRA_PIN_ENABLE"
        THEN <<property_line("lock", get_lock(c))>> ELSE <<>>)
    \o (IF get_od(c) = "TEGRA_PIN_ENABLE"
        THEN <<property_line("open-drain", get_od(c))>> ELSE <<>>)
    \o (IF get_ddc(c) # 0
        THEN <<property_line("e-io-od", get_rcvsel(c))>> ELSE <<>>)
    \o (IF get_has_eqos(c) # 0
        THEN <<property_line("e-lpbk", get_eqos(c))>> ELSE <<>>)

\* the lines of one pin block, the same in both loops
pin_block_lines(pin, func, pnum, sig, c) ==
    comment_lines(pnum, sig)
    \o <<TRIPLE_TAB \o pin \o " {",
         QUAD_TAB \o "nvidia,pins = \"" \o pin \o "\";",
         QUAD_TAB \o "nvidia,function = \"" \o func \o "\";",
         property_line("pull", get_pull(c)),
         property_line("tristate", get_tristate(c)),
         property_line("enable-input", get_einput(c)),
         property_line("drv-type", get_lpdr(c))>>
    \o optional_lines(c)
    \o <<TRIPLE_TAB \o "};">>

pin_block_at(names, funcs, cfgs, pnums, sigs, current) ==
    pin_block_lines(names[current], funcs[current], pnums[current],
                    sigs[current], cfgs[current])

\* the loop over the pins current..last; a blank line between two blocks
RECURSIVE pin_loop(_, _, _, _, _, _, _)
pin_loop(names, funcs, cfgs, pnums, sigs, current, last) ==
    IF current > last THEN <<>>
    ELSE pin_block_at(names, funcs, cfgs, pnums, sigs, current)
         \o (IF current < last THEN <<"">> ELSE <<>>)
         \o pin_loop(names, funcs, cfgs, pnums, sigs, current + 1, last)

\* the list lines of print_pinmux_dt; max_gpio_index is always 0
print_lines(names, funcs, cfgs, pnums, sigs, max_used_index, max_index) ==
    <<DOUBLE_TAB \o "common {",
      TRIPLE_TAB \o "/* SFIO Pin Configuration */">>
    \o pin_loop(names, funcs, cfgs, pnums, sigs, 1, max_used_index)
    \o <<DOUBLE_TAB \o "};",
         "",
         "\tpinmux_unused_lowpower: unused_lowpower {">>
    \o pin_loop(names, funcs, cfgs, pnums, sigs, max_used_index + 1, max_index)
    \o <<DOUBLE_TAB \o "};",
         "",
         DOUBLE_TAB \o "drive_default: drive {",
         DOUBLE_TAB \o "};">>

\* the text print_pinmux_dt returns
dtsi_text(the_lines) == Join("\n", the_lines) \o "\n"

(***************************************************************************)
(* gen_pinmux_dt_from_xlsx.py: cells and encode_config_bits_for_row         *)
(* A cell is <<>> when the sheet has no value there (None), <<s>> when it   *)
(* holds the text s.                                                        *)
(***************************************************************************)

None == <<>>
Cell(s) == <<s>>

_as_str(v) == IF v = None THEN "" ELSE Strip(v[1])

UpperCase == "ABCDEFGHIJKLMNOPQRSTUVWXYZ"
LowerCase == "abcdefghijklmnopqrstuvwxyz"

LowerAt(c, k) == IF k = 0 THEN c ELSE Ch(LowerCase, k)
LowerCh(c) == LowerAt(c, IndexOf(UpperCase, c))

\* str.lower()
RECURSIVE Lower(_)
Lower(s) == IF s = "" THEN "" ELSE LowerCh(Ch(s, 1)) \o Lower(From(s, 2))

\* sub in s
Contains(s, sub) == IndexOf(s, sub) # 0

\* s.startswith(prefix)
StartsWith(s, prefix) ==
    Len(s) >= Len(prefix) /\ SubSeq(s, 1, Len(prefix)) = prefix

\* the pull bits with the two pulls exchanged
pull_bits_swapped(au_s) ==
    IF Contains(au_s, "int pu") THEN CFG_PULL_DOWN
    ELSE IF Contains(au_s, "int pd") THEN CFG_PULL_UP
    ELSE 0

pull_bits(au_s) ==
    IF Contains(au_s, "int pu") THEN CFG_PULL_UP
    ELSE IF Contains(au_s, "int pd") THEN CFG_PULL_DOWN
    ELSE 0

direction_bits(at_s, av_s) ==
    IF at_s = "input" THEN BitOr(CFG_TRISTATE, CFG_E_INPUT)
    ELSE IF at_s = "output" /\ av_s = "yes" THEN CFG_E_INPUT
    ELSE 0

disable_bits(ax_s) == IF ax_s = "disable" THEN CFG_TRISTATE ELSE 0

drive_bits(au_s) ==
    IF Contains(au_s, "drive 0") THEN CFG_DRV_1X
    ELSE IF Contains(au_s, "drive 1") THEN BitOr(CFG_DRV_1X, CFG_DEF_1X)
    ELSE 0

encode_bits(au_s, at_s, av_s, ax_s) ==
    BitOr(BitOr(BitOr(pull_bits(au_s), direction_bits(at_s, av_s)),
                disable_bits(ax_s)),
          drive_bits(au_s))

encode_config_bits_for_row(row, used_cells) ==
    encode_bits(Lower(_as_str(used_cells[row].AU)),
                Lower(_as_str(used_cells[row].AT)),
                Lower(_as_str(used_cells[row].AV)),
                Lower(_as_str(used_cells[row].AX)))

(***************************************************************************)
(* gen_pinmux_dt_from_xlsx.py: main                                        *)
(***************************************************************************)

\* the same test comparing the function name as written
is_unused_as_written(func, func_lower, dir_s) ==
    \/ func = ""
    \/ StartsWith(func, "unused")
    \/ dir_s \in {"not assigned", "n/a"}

\* the test "the row is unused" of the classification loop
is_unused(func, func_lower, dir_s) ==
    \/ func = ""
    \/ StartsWith(func_lower, "unused")
    \/ dir_s \in {"not assigned", "n/a"}

row_is_unused(cells, r) ==
    is_unused(_as_str(cells[r].AS), Lower(_as_str(cells[r].AS)),
              Lower(_as_str(cells[r].AT)))

\* the rows r.. of the table that go to used_rows (unused = FALSE) or to
\* unused_rows (unused = TRUE); rows without an MPIO name are skipped
RECURSIVE classify(_, _, _)
classify(cells, r, unused) ==
    IF r > Len(cells) THEN <<>>
    ELSE (IF _as_str(cells[r].C) # "" /\ row_is_unused(cells, r) = unused
             THEN <<r>> ELSE <<>>)
         \o classify(cells, r + 1, unused)

\* sfio_name of a row of unused_rows
unused_func(func) == IF func # "" THEN func ELSE "unused"

\* the five arrays, index 0 left out: the used rows first, then the unused
fill_mpio_name(cells, used, unused) ==
    [k \in 1..Len(used \o unused) |-> _as_str(cells[(used \o unused)[k]].C)]

fill_sfio_name(cells, used, unused) ==
    [k \in 1..Len(used) |-> _as_str(cells[used[k]].AS)]
    \o [k \in 1..Len(unused) |-> unused_func(_as_str(cells[unused[k]].AS))]

fill_mpio_cfg(cells, used, unused) ==
    [k \in 1..Len(used \o unused) |->
        encode_config_bits_for_row((used \o unused)[k], cells)]

fill_pin_num(cells, used, unused) ==
    [k \in 1..Len(used \o unused) |-> _as_str(cells[(used \o unused)[k]].A)]

fill_signal_name(cells, used, unused) ==
    [k \in 1..Len(used \o unused) |-> _as_str(cells[(used \o unused)[k]].B)]

DeltaIdle ==
    /\ before_text = ""
    /\ after_text = ""
    /\ before_blocks = NoBlocks
    /\ after_blocks = NoBlocks
    /\ changed_pins = <<>>
    /\ delta_common = ""

\* the loop over the data rows
classify_rows ==
    /\ pc = "read"
    /\ used_rows' = classify(sheet, 1, FALSE)
    /\ unused_rows' = classify(sheet, 1, TRUE)
    /\ pc' = "classified"
    /\ UNCHANGED <<dvars, sheet, mpio_name, sfio_name, mpio_cfg, pin_num,
                   signal_name, max_sfio_index, max_unused_index, dt_lines,
                   out_text, printed>>

\* the two fill loops
fill_arrays ==
    /\ pc = "classified"
    /\ mpio_name' = fill_mpio_name(sheet, used_rows, unused_rows)
    /\ sfio_name' = fill_sfio_name(sheet, used_rows, unused_rows)
    /\ mpio_cfg' = fill_mpio_cfg(sheet, used_rows, unused_rows)
    /\ pin_num' = fill_pin_num(sheet, used_rows, unused_rows)
    /\ signal_name' = fill_signal_name(sheet, used_rows, unused_rows)
    /\ max_sfio_index' = Len(used_rows)
    /\ max_unused_index' = Len(unused_rows)
    /\ pc' = "filled"
    /\ UNCHANGED <<dvars, sheet, used_rows, unused_rows, dt_lines, out_text,
                   printed>>

\* dtsi_text = print_pinmux_dt(...)
print_pinmux_dt ==
    /\ pc = "filled"
    /\ dt_lines' = print_lines(mpio_name, sfio_name, mpio_cfg, pin_num,
                               signal_name, max_sfio_index,
                               max_sfio_index + max_unused_index)
    /\ pc' = "printed"
    /\ UNCHANGED <<dvars, sheet, used_rows, unused_rows, mpio_name, sfio_name,
                   mpio_cfg, pin_num, signal_name, max_sfio_index,
                   max_unused_index, out_text, printed>>

\* out_path.write_text(dtsi_text) and the final message
write_dtsi ==
    /\ pc = "printed"
    /\ out_text' = dtsi_text(dt_lines)
    /\ printed' = "Wrote with " \o ToString(max_sfio_index)
                    \o " used pins and " \o ToString(max_unused_index)
                    \o " unused pins."
    /\ pc' = "written"
    /\ UNCHANGED <<dvars, gvars>>

(***************************************************************************)
(* Configuration words handed to print_pinmux_dt                           *)
(***************************************************************************)

\* number of bits of the configuration words explored
WordBits == 13

RECURSIVE Pow2(_)
Pow2(n) == IF n = 0 THEN 1 ELSE 2 * Pow2(n - 1)

Words == 0..(Pow2(WordBits) - 1)

\* one pin with the configuration word w, active or unused
InitWord ==
    /\ DeltaIdle
    /\ sheet = <<>>
    /\ used_rows = <<>>
    /\ unused_rows = <<>>
    /\ mpio_name = <<"P9">>
    /\ sfio_name = <<"spi1">>
    /\ mpio_cfg \in {<<w>> : w \in Words}
    /\ pin_num = <<"">>
    /\ signal_name = <<"">>
    /\ max_sfio_index \in {0, 1}
    /\ max_unused_index = 1 - max_sfio_index
    /\ dt_lines = <<>>
    /\ out_text = ""
    /\ printed = ""
    /\ pc = "filled"

NextWord == print_pinmux_dt \/ write_dtsi

SpecWord == InitWord /\ [][NextWord]_vars

(***************************************************************************)
(* Sheets                                                                  *)
(***************************************************************************)

Row(a, b, c, as, at, au, av, ax) ==
    [A |-> a, B |-> b, C |-> c, AS |-> as, AT |-> at, AU |-> au, AV |-> av,
     AX |-> ax]

\* one row with an MPIO name and a function, every direction, pull, hint
\* and output-enable value of the template
Directions ==
    {Cell("Input"), Cell(" output "), Cell("Output"), Cell("Not Assigned"),
     Cell("N/A"), None}
Pulls ==
    {Cell("Z"), Cell("Int PU"), Cell("Int PD"), Cell("Drive 0"),
     Cell("Drive 1"), Cell("N/A"), None}
Hints == {Cell("Yes"), Cell("No"), None}
Enables == {Cell("Enable"), Cell("Disable"), None}

EncodeRows ==
    {Row(Cell("7"), Cell("SPI1_CLK"), Cell("P9"), Cell("spi1"), at, au, av, ax) :
        at \in Directions, au \in Pulls, av \in Hints, ax \in Enables}

InitEncode ==
    /\ DeltaIdle
    /\ sheet \in {<<row>> : row \in EncodeRows}
    /\ used_rows = <<>>
    /\ unused_rows = <<>>
    /\ mpio_name = <<>>
    /\ sfio_name = <<>>
    /\ mpio_cfg = <<>>
    /\ pin_num = <<>>
    /\ signal_name = <<>>
    /\ max_sfio_index = 0
    /\ max_unused_index = 0
    /\ dt_lines = <<>>
    /\ out_text = ""
    /\ printed = ""
    /\ pc = "read"

NextGen == classify_rows \/ fill_arrays \/ print_pinmux_dt \/ write_dtsi

SpecEncode == InitEncode /\ [][NextGen]_vars

\* tables of up to MaxRows rows
MaxRows == 2

\* function, direction and pull of the rows of the tables
Usages ==
    {<<None, Cell("Output"), Cell("Z")>>,
     <<Cell("spi1"), Cell("Output"), Cell("Int PU")>>,
     <<Cell("spi1"), Cell("Input"), Cell("Z")>>,
     <<Cell("spi1"), Cell("N/A"), Cell("Int PU")>>,
     <<Cell("spi1"), Cell("Not Assigned"), Cell("Int PD")>>,
     <<Cell("Unused_GP"), Cell("Output"), Cell("Int PU")>>}

TableRows ==
    {Row(None, None, c, u[1], u[2], u[3], None, None) :
        c \in {None, Cell(" "), Cell("P9"), Cell("P10")}, u \in Usages}

RECURSIVE Tables(_)
Tables(n) ==
    IF n = 0 THEN {<<>>}
    ELSE Tables(n - 1)
         \cup {Append(t, row) : t \in {u \in Tables(n - 1) : Len(u) = n - 1},
                                row \in TableRows}

InitGen ==
    /\ DeltaIdle
    /\ sheet \in Tables(MaxRows)
    /\ used_rows = <<>>
    /\ unused_rows = <<>>
    /\ mpio_name = <<>>
    /\ sfio_name = <<>>
    /\ mpio_cfg = <<>>
    /\ pin_num = <<>>
    /\ signal_name = <<>>
    /\ max_sfio_index = 0
    /\ max_unused_index = 0
    /\ dt_lines = <<>>
    /\ out_text = ""
    /\ printed = ""
    /\ pc = "read"

SpecGen == InitGen /\ [][NextGen]_vars

(***************************************************************************)
(* Observations of the generator's document                                *)
(***************************************************************************)

\* the flag of a configuration word, read off the word arithmetically
HasBit(w, flag) == (w \div flag) % 2 = 1

\* the rendered document holds the property line "nvidia,<name> = <value>;"
Emitted(name, value) ==
    ("\t\t\t\tnvidia," \o name \o " = <" \o value \o ">;") \in Range(dt_lines)

\* a line that opens a pin block: three tabs, the pin identifier, " {"
IsOpener(line) ==
    /\ Len(line) > 5
    /\ SubSeq(line, 1, 3) = "\t\t\t"
    /\ Ch(line, 4) # "\t"
    /\ SubSeq(line, Len(line) - 1, Len(line)) = " {"

OpenerPin(line) == SubSeq(line, 4, Len(line) - 2)

\* the pin identifiers of the blocks in the lines from..to, in order
RECURSIVE PinsIn(_, _)
PinsIn(from, to) ==
    IF from > to THEN <<>>
    ELSE (IF IsOpener(dt_lines[from]) THEN <<OpenerPin(dt_lines[from])>>
          ELSE <<>>) \o PinsIn(from + 1, to)

\* the line that opens the section of the unused pins
UnusedSectionAt ==
    FirstOf({k \in 1..Len(dt_lines) :
                dt_lines[k] = "\tpinmux_unused_lowpower: unused_lowpower {"})

ActivePins == PinsIn(1, UnusedSectionAt - 1)
UnusedPins == PinsIn(UnusedSectionAt + 1, Len(dt_lines))

NoRepeat(q) == \A i, j \in 1..Len(q) : q[i] = q[j] => i = j

Rendered == pc \in {"printed", "written"}

(***************************************************************************)
(* Properties of the generator                                             *)
(***************************************************************************)

PullResults ==
    {"TEGRA_PIN_PULL_NONE", "TEGRA_PIN_PULL_DOWN", "TEGRA_PIN_PULL_UP", "-1"}

PullOf(w) ==
    IF HasBit(w, CFG_PULL_UP) /\ HasBit(w, CFG_PULL_DOWN) THEN "-1"
    ELSE IF HasBit(w, CFG_PULL_UP) THEN "TEGRA_PIN_PULL_UP"
    ELSE IF HasBit(w, CFG_PULL_DOWN) THEN "TEGRA_PIN_PULL_DOWN"
    ELSE "TEGRA_PIN_PULL_NONE"

\* C6: for every configuration word w, get_pull(w) is pull-none, pull-down,
\* pull-up or the marker "-1"; it is the marker if and only if both
\* CFG_PULL_UP and CFG_PULL_DOWN are set in w, whatever the other bits are;
\* the rendered block carries that result in its pull field.
C6_GetPullFourResults ==
    \A k \in 1..Len(mpio_cfg) :
        /\ get_pull(mpio_cfg[k]) \in PullResults
        /\ (get_pull(mpio_cfg[k]) = "-1") =
               (HasBit(mpio_cfg[k], CFG_PULL_UP)
                    /\ HasBit(mpio_cfg[k], CFG_PULL_DOWN))
        /\ get_pull(mpio_cfg[k]) = PullOf(mpio_cfg[k])
        /\ Rendered => Emitted("pull", PullOf(mpio_cfg[k]))

\* a word with both pull bits and other bits set has been rendered
C6_Witness ==
    /\ pc = "printed"
    /\ HasBit(mpio_cfg[1], CFG_PULL_UP)
    /\ HasBit(mpio_cfg[1], CFG_PULL_DOWN)
    /\ HasBit(mpio_cfg[1], CFG_TRISTATE)
    /\ Emitted("pull", "-1")

\* what the single row of the sheet was built from
RowIsInput == Lower(Strip(sheet[1].AT[1])) = "input"
RowIsOutput == Lower(Strip(sheet[1].AT[1])) = "output"
RowHasDirection == sheet[1].AT # None /\ (RowIsInput \/ RowIsOutput)
RowPull ==
    IF sheet[1].AU = Cell("Int PU") THEN "TEGRA_PIN_PULL_UP"
    ELSE IF sheet[1].AU = Cell("Int PD") THEN "TEGRA_PIN_PULL_DOWN"
    ELSE "TEGRA_PIN_PULL_NONE"
RowHint == sheet[1].AV = Cell("Yes")
RowOutputDisable == sheet[1].AX = Cell("Disable")

EnableIff(b) == IF b THEN "TEGRA_PIN_ENABLE" ELSE "TEGRA_PIN_DISABLE"

\* C7: round trip of encode and decode. For every row whose direction is
\* input or output, with any pull mode, input-enable hint and output-enable
\* flag, decoding the encoded word gives back the row: get_pull names the
\* row's pull mode, get_tristate is ENABLE exactly when the row is an input
\* or has output-disable set, get_einput is ENABLE exactly when the row is
\* an input or an output whose input-enable hint is Yes; the rendered block
\* carries these values.
C7_EncodeDecodeRoundTrip ==
    (pc \in {"filled", "printed", "written"} /\ RowHasDirection) =>
        /\ Len(mpio_cfg) = 1
        /\ get_pull(mpio_cfg[1]) = RowPull
        /\ get_tristate(mpio_cfg[1])
               = EnableIff(RowIsInput \/ RowOutputDisable)
        /\ get_einput(mpio_cfg[1])
               = EnableIff(RowIsInput \/ (RowIsOutput /\ RowHint))
        /\ Rendered =>
               /\ Emitted("pull", RowPull)
               /\ Emitted("tristate", EnableIff(RowIsInput \/ RowOutputDisable))
               /\ Emitted("enable-input",
                          EnableIff(RowIsInput \/ (RowIsOutput /\ RowHint)))

\* an output row with pull-down, the hint and output-disable was rendered
C7_Witness ==
    /\ pc = "printed"
    /\ RowHasDirection
    /\ RowIsOutput
    /\ RowHint
    /\ RowOutputDisable
    /\ RowPull = "TEGRA_PIN_PULL_DOWN"
    /\ Emitted("pull", "TEGRA_PIN_PULL_DOWN")
    /\ Emitted("tristate", "TEGRA_PIN_ENABLE")
    /\ Emitted("enable-input", "TEGRA_PIN_ENABLE")

\* the text of a cell, "" for a cell without value
TextOf(cell) == IF cell = None THEN "" ELSE Strip(cell[1])

HasIdentifier(r) == TextOf(sheet[r].C) # ""

\* the rule of the classification, stated on the cells of row r
UnusedByRule(r) ==
    \/ TextOf(sheet[r].AS) = ""
    \/ /\ Len(TextOf(sheet[r].AS)) >= 6
       /\ Lower(SubSeq(TextOf(sheet[r].AS), 1, 6)) = "unused"
    \/ Lower(TextOf(sheet[r].AT)) \in {"not assigned", "n/a"}

\* the rows r.. with an identifier that the rule puts in the group
RECURSIVE RowsByRule(_, _)
RowsByRule(r, unused) ==
    IF r > Len(sheet) THEN <<>>
    ELSE (IF HasIdentifier(r) /\ UnusedByRule(r) = unused THEN <<r>>
          ELSE <<>>) \o RowsByRule(r + 1, unused)

IdentifiersOf(rows) == [k \in 1..Len(rows) |-> TextOf(sheet[rows[k]].C)]

\* C8: the rows with a non-empty pin identifier are partitioned: a row is
\* unused if its function is empty, or begins with "unused" in any case, or
\* its direction is not-assigned or N/A, whatever its pull; every other row
\* is active. Each such row is in exactly one group, rows without
\* identifier are in neither, and in the rendered document the blocks of
\* each group follow the table order.
C8_PartitionInTableOrder ==
    /\ pc # "read" =>
          /\ used_rows = RowsByRule(1, FALSE)
          /\ unused_rows = RowsByRule(1, TRUE)
          /\ \A r \in 1..Len(sheet) :
                 /\ HasIdentifier(r) =>
                        (r \in Range(used_rows)) # (r \in Range(unused_rows))
                 /\ ~HasIdentifier(r) =>
                        r \notin Range(used_rows) \cup Range(unused_rows)
    /\ Rendered =>
          /\ ActivePins = IdentifiersOf(RowsByRule(1, FALSE))
          /\ UnusedPins = IdentifiersOf(RowsByRule(1, TRUE))

\* two unused rows, one by its function "Unused_GP" and one by its
\* direction, rendered in table order P10, P9
C8_Witness ==
    /\ pc = "printed"
    /\ Len(sheet) = 2
    /\ sheet[1].AS = Cell("Unused_GP")
    /\ sheet[2].AS = Cell("spi1")
    /\ unused_rows = <<1, 2>>
    /\ UnusedPins = <<"P10", "P9">>
    /\ ActivePins = <<>>

\* C9: no two blocks of the same group of the rendered document share a
\* pin identifier.
C9_NoDuplicateIdentifierInGroup ==
    Rendered => NoRepeat(ActivePins) /\ NoRepeat(UnusedPins)

OptionalFlags == {"lock", "open-drain", "e-io-od", "e-lpbk"}

\* C10: no rendered block holds one of the optional flag fields lock,
\* open-drain, e-io-od, e-lpbk with the value TEGRA_PIN_DISABLE.
C10_OptionalFlagsNeverDisable ==
    Rendered => \A name \in OptionalFlags : ~Emitted(name, "TEGRA_PIN_DISABLE")

\* C10: lock and open-drain are emitted exactly when their bit is set,
\* always with TEGRA_PIN_ENABLE; e-io-od is emitted exactly when CFG_DDC is
\* set, with the value of CFG_RCV_SEL; e-lpbk is emitted exactly when
\* CFG_HAS_EQOS is set, with the value of CFG_EQOS.
C10_OptionalFlagsByTheirGuard ==
    Rendered =>
        /\ Emitted("lock", "TEGRA_PIN_ENABLE") = HasBit(mpio_cfg[1], CFG_LOCK)
        /\ ~Emitted("lock", "TEGRA_PIN_DISABLE")
        /\ Emitted("open-drain", "TEGRA_PIN_ENABLE")
               = HasBit(mpio_cfg[1], CFG_OD)
        /\ ~Emitted("open-drain", "TEGRA_PIN_DISABLE")
        /\ Emitted("e-io-od", "TEGRA_PIN_ENABLE")
               = (HasBit(mpio_cfg[1], CFG_DDC)
                      /\ HasBit(mpio_cfg[1], CFG_RCV_SEL))
        /\ Emitted("e-io-od", "TEGRA_PIN_DISABLE")
               = (HasBit(mpio_cfg[1], CFG_DDC)
                      /\ ~HasBit(mpio_cfg[1], CFG_RCV_SEL))
        /\ Emitted("e-lpbk", "TEGRA_PIN_ENABLE")
               = (HasBit(mpio_cfg[1], CFG_HAS_EQOS)
                      /\ HasBit(mpio_cfg[1], CFG_EQOS))
        /\ Emitted("e-lpbk", "TEGRA_PIN_DISABLE")
               = (HasBit(mpio_cfg[1], CFG_HAS_EQOS)
                      /\ ~HasBit(mpio_cfg[1], CFG_EQOS))

\* a word with the lock bit, CFG_DDC without CFG_RCV_SEL was rendered
C10_Witness ==
    /\ pc = "printed"
    /\ HasBit(mpio_cfg[1], CFG_LOCK)
    /\ HasBit(mpio_cfg[1], CFG_DDC)
    /\ ~HasBit(mpio_cfg[1], CFG_RCV_SEL)
    /\ Emitted("lock", "TEGRA_PIN_ENABLE")
    /\ Emitted("e-io-od", "TEGRA_PIN_DISABLE")

DriveNames ==
    {"TEGRA_PIN_1X_DRIVER", "TEGRA_PIN_2X_DRIVER",
     "TEGRA_PIN_DEFAULT_DRIVE_1X", "TEGRA_PIN_DEFAULT_DRIVE_2X"}

DriveOf(w) ==
    IF HasBit(w, CFG_DRV_1X) /\ HasBit(w, CFG_DEF_1X)
        THEN "TEGRA_PIN_DEFAULT_DRIVE_2X"
    ELSE IF HasBit(w, CFG_DEF_1X) THEN "TEGRA_PIN_DEFAULT_DRIVE_1X"
    ELSE IF HasBit(w, CFG_DRV_1X) THEN "TEGRA_PIN_2X_DRIVER"
    ELSE "TEGRA_PIN_1X_DRIVER"

BothPullBits(w) == HasBit(w, CFG_PULL_UP) /\ HasBit(w, CFG_PULL_DOWN)
BothDriveBits(w) == HasBit(w, CFG_DRV_1X) /\ HasBit(w, CFG_DEF_1X)

\* C11: a decoded value of 3 in either 2-bit field is flagged: for every
\* word with both pull bits get_pull is the error marker, and for every word
\* with both CFG_DRV_1X and CFG_DEF_1X get_lpdr is not one of the valid
\* drive-type names, nor is one rendered.
C11_ValueThreeFlaggedInBothFields ==
    \A k \in 1..Len(mpio_cfg) :
        /\ BothPullBits(mpio_cfg[k]) => get_pull(mpio_cfg[k]) = "-1"
        /\ BothDriveBits(mpio_cfg[k]) =>
               /\ get_lpdr(mpio_cfg[k]) \notin DriveNames
               /\ Rendered => \A name \in DriveNames : ~Emitted("drv-type", name)

\* C11: a decoded value of 3 is flagged in the pull field only. For every
\* word with both pull bits get_pull is the marker "-1" and never a pull
\* name; get_lpdr is a valid drive-type name for every word, and for a word
\* with both CFG_DRV_1X and CFG_DEF_1X it is TEGRA_PIN_DEFAULT_DRIVE_2X; the
\* rendered block carries both results.
C11_PullFlaggedDriveThreeValid ==
    \A k \in 1..Len(mpio_cfg) :
        /\ BothPullBits(mpio_cfg[k]) => get_pull(mpio_cfg[k]) = "-1"
        /\ get_lpdr(mpio_cfg[k]) = DriveOf(mpio_cfg[k])
        /\ BothDriveBits(mpio_cfg[k]) =>
               get_lpdr(mpio_cfg[k]) = "TEGRA_PIN_DEFAULT_DRIVE_2X"
        /\ Rendered =>
               /\ Emitted("drv-type", DriveOf(mpio_cfg[k]))
               /\ BothPullBits(mpio_cfg[k]) => Emitted("pull", "-1")

\* a word with both pull bits and both drive bits was rendered
C11_Witness ==
    /\ pc = "printed"
    /\ BothPullBits(mpio_cfg[1])
    /\ BothDriveBits(mpio_cfg[1])
    /\ Emitted("pull", "-1")
    /\ Emitted("drv-type", "TEGRA_PIN_DEFAULT_DRIVE_2X")

(***************************************************************************)
(* Properties of the delta tool on malformed documents                     *)
(***************************************************************************)

UnterminatedDocs == {Unterminated, UnterminatedWrapped}

\* the well-formed block P9 that precedes the unterminated one was returned
PrecedingKept(blocks) ==
    /\ "P9" \in DOMAIN blocks
    /\ blocks["P9"].norm = "P9 { p; };"

\* C12: when the common section of an input document holds a block whose
\* brace depth never returns to zero, extracting the section and parsing it
\* still returns every well-formed block that precedes that block.
C12_BlocksBeforeUnterminatedKept ==
    pc # "start" =>
        /\ before_text \in UnterminatedDocs => PrecedingKept(before_blocks)
        /\ after_text \in UnterminatedDocs => PrecedingKept(after_blocks)

\* the documents whose common section cannot be located or balanced
Unlocatable == {t \in Texts : extract_common_section(t) = ""}

\* what main writes and prints when it compares b with a
OutcomeOf(b, a) ==
    <<render_delta(BlocksOf[a], compute_changed_pins(BlocksOf[b], BlocksOf[a])),
      delta_message(render_delta(BlocksOf[a],
                        compute_changed_pins(BlocksOf[b], BlocksOf[a])))>>

\* the outcomes of successful comparisons that find no changed pin: a
\* document with a common section compared with itself
NoChangeOutcomes == {OutcomeOf(t, t) : t \in Texts \ Unlocatable}

\* C13: in Pinmux_dtsi_delta.main the outcome of a comparison that fails
\* because the common section of an input cannot be located or balanced is
\* never the outcome (written output and printed result) of a successful
\* comparison that found no changed pin.
C13_FailedComparisonDistinguishable ==
    (pc = "done" /\ (before_text \in Unlocatable \/ after_text \in Unlocatable))
        => <<out_text, printed>> \notin NoChangeOutcomes

\* a line that opens the block of pin p
OpensBlockOf(p, line) == StartsWith(LStrip(line), p \o " {")

\* a comment-only line
CommentOnly(line) ==
    /\ StartsWith(Strip(line), "/*")
    /\ Len(Strip(line)) >= 4
    /\ SubSeq(Strip(line), Len(Strip(line)) - 1, Len(Strip(line))) = "*/"

\* the brace depth after the lines from..to
RECURSIVE DepthOver(_, _, _)
DepthOver(block, from, to) ==
    IF from > to THEN 0
    ELSE Count(block[from], "{") - Count(block[from], "}")
             + DepthOver(block, from + 1, to)

\* the lines of a block of pin p start at the opener, or at one comment line
\* directly followed by the opener, and end where the depth counted from
\* the opener is back at zero for the first time
WellDelimited(p, block, opener) ==
    /\ opener \in {1, 2}
    /\ opener <= Len(block)
    /\ OpensBlockOf(p, block[opener])
    /\ opener = 2 => CommentOnly(block[1])
    /\ DepthOver(block, opener, Len(block)) = 0
    /\ \A k \in opener..(Len(block) - 1) : DepthOver(block, opener, k) # 0

BlockStartsAtOpenerOrItsComment(p, block) ==
    \E opener \in {1, 2} : WellDelimited(p, block, opener)

\* C14: the raw text of every parsed block starts at its opener line or at
\* the single comment-only line directly before the opener, and ends at the
\* line where its brace depth returns to zero; a comment line separated from
\* the opener by another line, and the lines in between, are not part of it.
C14_BlockStartsAtOpenerOrItsComment ==
    pc # "start" =>
        /\ \A p \in DOMAIN before_blocks :
               BlockStartsAtOpenerOrItsComment(
                   p, SplitLines(before_blocks[p].text))
        /\ \A p \in DOMAIN after_blocks :
               BlockStartsAtOpenerOrItsComment(
                   p, SplitLines(after_blocks[p].text))

=============================================================================
